---- MODULE Spec2Model ----
(***************************************************************************)
(* Lot sizing and scheduling: LotSizingSolver of                           *)
(* src/app/modules/optimization/solver.py, with its two callers            *)
(* (run_optimization of src/app/main.py and run_doe of src/DOE/run_doe.py).*)
(*                                                                         *)
(* Quantities (kg, hours, steps) are integers.  The continuous variables   *)
(* I, Q, K and B of the MILP range over whole kg, so the assignments of    *)
(* the model are the integral assignments of the program's constraint      *)
(* system.  Money is carried in tenths of a currency unit so that          *)
(* BACKLOG_PENALTY_FACTOR = 0.1 is exact.  safety_stock_pct is carried as  *)
(* a number of halves (PctDen).  A period "2024-01" is the number 202401:  *)
(* fixed-width period strings compare as their digits do.  Python's        *)
(* 0-based t_idx is the 1-based index i of periods here (t_idx = i - 1).   *)
(***************************************************************************)
EXTENDS Integers, Sequences, FiniteSets, TLC

VARIABLES
    caller,             \* which caller of the repository built the solver
    vacation_planning,  \* run_doe's keyword vacation_planning = (operators > 0)
    solve_kwargs,       \* the keywords the caller passes to solve
    demand_keys,        \* the insertion order of the demand dict
    demand, productivity, initial_stock, active_machines,
    start_period, end_period, costs, hours_per_period, max_delay,
    step_hours, integer_var, safety_stock_pct,
    products, periods, machine_products, product_machines,
    upBound,            \* upBound of every H variable, set by _define_variables
    H_steps, Y, S_state, Delta_Setup, Idle, I, Q, K, B,   \* varValue of each variable
    best,               \* the least objective value the back-end has proved
    timeLimit,          \* the time limit handed to the back-end
    status,             \* pulp.LpStatus[prob.status]
    result,             \* what solve returns
    pc

argVars == <<caller, vacation_planning, solve_kwargs, demand_keys, demand,
             productivity, initial_stock, active_machines, start_period, end_period, costs,
             hours_per_period, max_delay, step_hours, integer_var,
             safety_stock_pct>>
indexVars == <<products, periods, machine_products, product_machines>>
valueVars == <<H_steps, Y, S_state, Delta_Setup, Idle, I, Q, K, B>>
vars == <<argVars, indexVars, upBound, valueVars, best, timeLimit, status,
          result, pc>>

(***************************************************************************)
(* Bounds of the model.                                                    *)
(***************************************************************************)
MaxDemand == 1      \* demand[p][t] is drawn from 0..MaxDemand kg
MaxStock == 1       \* initial_stock[p] is drawn from 0..MaxStock kg

(***************************************************************************)
(* Config (src/app/config.py).                                             *)
(***************************************************************************)
HIGH_SETUP_MACHINES == {"11", "14"}
DEFAULT_SETUP_TIME_HIGH == 7
DEFAULT_SETUP_TIME_LOW == 3
MoneyScale == 10                    \* money is carried in tenths
BACKLOG_PENALTY_TENTHS == 1         \* BACKLOG_PENALTY_FACTOR = 0.1, in tenths
PctDen == 2                         \* safety_stock_pct = safety_stock_pct / PctDen
PULP_TIME_LIMIT == 600              \* PULP_CBC_CMD(msg=1, timeLimit=600)

None == 0                           \* Python's None / absent end_period (falsy)
NoValue == -1                       \* no objective value: no feasible assignment

(***************************************************************************)
(* The inputs the callers hand to the constructor.                         *)
(***************************************************************************)
PA == <<"A", "L">>
PB == <<"B", "L">>
AllDates == <<202401, 202402>>
DateSet == {AllDates[n] : n \in 1..Len(AllDates)}
Horizons == {<<AllDates[1], None>>, <<AllDates[2], None>>,
             <<AllDates[1], AllDates[1]>>, <<AllDates[2] + 1, None>>}

\* One product on one machine (a low-setup or a high-setup one).
SingleProductInputs ==
    { [demand_keys |-> <<PA>>, demand |-> (PA :> d),
       productivity |-> (PA :> (m :> 1)),
       initial_stock |-> st, active_machines |-> <<m>>,
       start_period |-> se[1], end_period |-> se[2],
       costs |-> (PA :> 5), hours_per_period |-> h, max_delay |-> md,
       step_hours |-> 1, integer_var |-> TRUE, safety_stock_pct |-> ss] :
      d \in [DateSet -> 0..MaxDemand], m \in {"1", "11"},
      st \in {<<>>} \cup {(PA :> s) : s \in 1..MaxStock},
      se \in Horizons, h \in {3, 4, 8}, md \in {0, 1}, ss \in {0, 1, 2} }

\* Two products on machine "1", made in steps of 4 hours (4 kg): losing a
\* period's demand costs more than a setup.  The unit cost of B may be absent.
TwoProductInputs ==
    { [demand_keys |-> <<PA, PB>>, demand |-> (PA :> da @@ PB :> db),
       productivity |-> (PA :> ("1" :> 1) @@ PB :> ("1" :> 1)),
       initial_stock |-> <<>>, active_machines |-> <<"1">>,
       start_period |-> AllDates[1], end_period |-> None,
       costs |-> c, hours_per_period |-> 14, max_delay |-> 0,
       step_hours |-> 4, integer_var |-> TRUE, safety_stock_pct |-> 0] :
      da \in {(AllDates[1] :> 4 @@ AllDates[2] :> 4),
              (AllDates[1] :> 0 @@ AllDates[2] :> 4)},
      db \in {(AllDates[1] :> 0 @@ AllDates[2] :> 4)},
      c \in {(PA :> 5 @@ PB :> 5), (PA :> 5)} }

\* Two active machines; B is made on "11" only, or on "1" (then "11" has no
\* product), or the only active machine cannot make B.
TwoMachineInputs ==
    { [demand_keys |-> <<PA, PB>>,
       demand |-> (PA :> (AllDates[1] :> 1 @@ AllDates[2] :> 0)
                   @@ PB :> (AllDates[1] :> 0 @@ AllDates[2] :> 1)),
       productivity |-> (PA :> ("1" :> 1) @@ PB :> (mb :> 1)),
       initial_stock |-> (PB :> 1), active_machines |-> am,
       start_period |-> AllDates[1], end_period |-> None,
       costs |-> (PA :> 5 @@ PB :> 5), hours_per_period |-> 8,
       max_delay |-> 0, step_hours |-> sv[1], integer_var |-> sv[2],
       safety_stock_pct |-> ss] :
      mb \in {"1", "11"}, am \in {<<"1">>, <<"1", "11">>},
      sv \in {<<1, TRUE>>, <<2, TRUE>>, <<1, FALSE>>}, ss \in {0, 2} }

\* One machine, one product at 10 kg/h, 100 kg due in the single period,
\* 720 hours in steps of 6 hours.
ScenarioOneInputs ==
    { [demand_keys |-> <<PA>>, demand |-> (PA :> (AllDates[1] :> 100)),
       productivity |-> (PA :> ("1" :> 10)),
       initial_stock |-> (PA :> 0), active_machines |-> <<"1">>,
       start_period |-> AllDates[1], end_period |-> None,
       costs |-> (PA :> 5), hours_per_period |-> 720, max_delay |-> 0,
       step_hours |-> 6, integer_var |-> TRUE, safety_stock_pct |-> 0] }

\* The inputs are those whose safety stocks are whole kg, so that the least
\* objective over the integral assignments is the optimum of the program.
WholeSafetyStock(a) ==
    \A p \in DOMAIN a.demand : \A t \in DOMAIN a.demand[p] :
        (a.demand[p][t] * a.safety_stock_pct) % PctDen = 0

Inputs == { a \in SingleProductInputs \cup TwoProductInputs \cup TwoMachineInputs
                   \cup ScenarioOneInputs :
              WholeSafetyStock(a) }

Init ==
    /\ \E a \in Inputs :
          /\ demand_keys = a.demand_keys
          /\ demand = a.demand
          /\ productivity = a.productivity
          /\ initial_stock = a.initial_stock
          /\ active_machines = a.active_machines
          /\ start_period = a.start_period
          /\ end_period = a.end_period
          /\ costs = a.costs
          /\ hours_per_period = a.hours_per_period
          /\ max_delay = a.max_delay
          /\ step_hours = a.step_hours
          /\ integer_var = a.integer_var
          /\ safety_stock_pct = a.safety_stock_pct
    /\ \E c \in {"run_optimization", "run_doe"} :
          /\ caller = c
          /\ vacation_planning \in
                IF c = "run_doe" THEN BOOLEAN ELSE {FALSE}
          /\ solve_kwargs \in
                IF c = "run_doe"
                THEN {[time_limit |-> tl, solver_name |-> sn] :
                         tl \in {60, 600}, sn \in {"CBC", "GUROBI"}}
                ELSE {<<>>}
    /\ products = <<>>
    /\ periods = <<>>
    /\ machine_products = <<>>
    /\ product_machines = <<>>
    /\ upBound = <<>>
    /\ H_steps = <<>> /\ Y = <<>> /\ S_state = <<>> /\ Delta_Setup = <<>>
    /\ Idle = <<>> /\ I = <<>> /\ Q = <<>> /\ K = <<>> /\ B = <<>>
    /\ best = NoValue
    /\ timeLimit = None
    /\ status = "Not Solved"
    /\ result = <<>>
    /\ pc = "call"

(***************************************************************************)
(* Helpers: Python's sum / pulp.lpSum, min, sorted, math.ceil, dict.get.   *)
(***************************************************************************)
RECURSIVE SumSeq(_)
SumSeq(s) == IF s = <<>> THEN 0 ELSE Head(s) + SumSeq(Tail(s))

RECURSIVE Concat(_)
Concat(ss) == IF ss = <<>> THEN <<>> ELSE Head(ss) \o Concat(Tail(ss))

Min(a, b) == IF a <= b THEN a ELSE b

Max(a, b) == IF a >= b THEN a ELSE b

CeilDiv(a, b) == (a + b - 1) \div b

RECURSIVE SortedSeq(_)
SortedSeq(S) ==
    IF S = {} THEN <<>>
    ELSE LET lo == CHOOSE x \in S : \A y \in S : x <= y
         IN <<lo>> \o SortedSeq(S \ {lo})

Range(s) == {s[n] : n \in 1..Len(s)}

Get(d, k, default) == IF k \in DOMAIN d THEN d[k] ELSE default

Label(p) == p[1] \o " " \o p[2]

(***************************************************************************)
(* LotSizingSolver.__init__                                                *)
(***************************************************************************)
all_dates == SortedSeq(DOMAIN demand[demand_keys[1]])

InHorizon(d) ==
    IF end_period # None
    THEN d >= start_period /\ d <= end_period
    ELSE d >= start_period

MachineProductsOf(m) ==
    SelectSeq(demand_keys,
              LAMBDA p : p \in DOMAIN productivity /\ m \in DOMAIN productivity[p])

ProductMachinesOf(p) ==
    SelectSeq(active_machines,
              LAMBDA m : p \in DOMAIN productivity /\ m \in DOMAIN productivity[p])

\* run_doe passes vacation_planning and operators_per_machine, which the
\* signature does not take: the call raises TypeError.
Construct ==
    /\ pc = "call"
    /\ IF caller = "run_doe"
       THEN /\ pc' = "TypeError"
            /\ UNCHANGED indexVars
       ELSE /\ products' = demand_keys
            /\ periods' = SelectSeq(all_dates, InHorizon)
            /\ machine_products' =
                  [m \in Range(active_machines) |-> MachineProductsOf(m)]
            /\ product_machines' =
                  [p \in Range(demand_keys) |-> ProductMachinesOf(p)]
            /\ pc' = "constructed"
    /\ UNCHANGED <<argVars, upBound, valueVars, best, timeLimit, status, result>>

(***************************************************************************)
(* _define_variables: the tight big-M bound of H.                          *)
(***************************************************************************)
NumPeriods == Len(periods)

DemandAt(p, i) == Get(demand[p], periods[i], 0)

RECURSIVE remaining_demand(_, _)
remaining_demand(p, i) ==
    IF i > NumPeriods THEN 0 ELSE DemandAt(p, i) + remaining_demand(p, i + 1)

\* int(hours_per_period / step_hours); a continuous H is kept on whole steps
max_steps_cap == hours_per_period \div step_hours

ub_dem_Floor(m, p, i) ==
    IF productivity[p][m] > 0
    THEN remaining_demand(p, i) \div (productivity[p][m] * step_hours)
    ELSE 0

ub_dem(m, p, i) ==
    LET rate == productivity[p][m]
        needed_qty == remaining_demand(p, i)
    IN IF rate > 0
       THEN IF integer_var
            THEN CeilDiv(needed_qty, rate * step_hours)
            ELSE needed_qty \div (rate * step_hours)
       ELSE 0

max_steps(m, p, i) == Min(max_steps_cap, ub_dem(m, p, i))

Machines == Range(active_machines)

Products == Range(products)

KeysMP(i) == UNION {{<<m, p, periods[i]>> : p \in Range(machine_products[m])} :
                       m \in Machines}

KeysM(i) == {<<m, periods[i]>> : m \in Machines}

KeysP(i) == {<<p, periods[i]>> : p \in Products}

PeriodIndex(t) == CHOOSE i \in 1..NumPeriods : periods[i] = t

UpBounds ==
    [k \in UNION {KeysMP(i) : i \in 1..NumPeriods} |->
        max_steps(k[1], k[2], PeriodIndex(k[3]))]

(***************************************************************************)
(* A valuation v gives the variables their values: a record of the nine    *)
(* families, each a function of its keys (m, p, t), (m, t) or (p, t).      *)
(***************************************************************************)
Valuation ==
    [H_steps |-> H_steps, Y |-> Y, S_state |-> S_state,
     Delta_Setup |-> Delta_Setup, Idle |-> Idle, I |-> I, Q |-> Q, K |-> K,
     B |-> B]

Binary == {0, 1}

SeqOf(s, F(_)) == [n \in 1..Len(s) |-> F(s[n])]

(***************************************************************************)
(* _build_objective_function, in tenths of a currency unit.                *)
(***************************************************************************)
setup_time(m) ==
    IF m \in HIGH_SETUP_MACHINES THEN DEFAULT_SETUP_TIME_HIGH
    ELSE DEFAULT_SETUP_TIME_LOW

terms_lost_sales(v) ==
    Concat(SeqOf(products, LAMBDA p :
        SeqOf(periods, LAMBDA t :
            Get(costs, p, 0) * MoneyScale * v.K[<<p, t>>])))

terms_backlog(v) ==
    IF max_delay > 0
    THEN Concat(SeqOf(products, LAMBDA p :
            SeqOf(periods, LAMBDA t :
                Get(costs, p, 0) * BACKLOG_PENALTY_TENTHS * v.B[<<p, t>>])))
    ELSE <<>>

terms_setup(v) ==
    Concat(SeqOf(active_machines, LAMBDA m :
        Concat(SeqOf(periods, LAMBDA t :
            SeqOf(machine_products[m], LAMBDA p :
                Get(costs, p, 0) * productivity[p][m] * setup_time(m)
                    * MoneyScale * v.Delta_Setup[<<m, p, t>>])))))

Objective(v) ==
    SumSeq(terms_lost_sales(v) \o terms_backlog(v) \o terms_setup(v))

(***************************************************************************)
(* _add_constraints (and the H <= max_steps * Y link of _define_variables).*)
(***************************************************************************)
LinkHY(v, m, p, i) ==
    LET k == <<m, p, periods[i]>>
    IN /\ v.H_steps[k] <= upBound[k]
       /\ v.H_steps[k] <= upBound[k] * v.Y[k]

OneState_AtMost(v, m, i) ==
    SumSeq(SeqOf(machine_products[m],
                 LAMBDA p : v.S_state[<<m, p, periods[i]>>])) <= 1

OneState_SkipEmpty(v, m, i) ==
    \/ machine_products[m] = <<>>
    \/ SumSeq(SeqOf(machine_products[m],
                    LAMBDA p : v.S_state[<<m, p, periods[i]>>])) = 1

OneState(v, m, i) ==
    SumSeq(SeqOf(machine_products[m],
                 LAMBDA p : v.S_state[<<m, p, periods[i]>>])) = 1

prev_s(v, m, p, i) ==
    IF i > 1 THEN v.S_state[<<m, p, periods[i - 1]>>] ELSE 0

DeltaDef_NoStateChange(v, m, p, i) ==
    v.Delta_Setup[<<m, p, periods[i]>>] >= 0

DeltaDef(v, m, p, i) ==
    v.Delta_Setup[<<m, p, periods[i]>>] >=
        v.S_state[<<m, p, periods[i]>>] - prev_s(v, m, p, i)

DeltaProd(v, m, p, i) ==
    v.Delta_Setup[<<m, p, periods[i]>>] >=
        v.Y[<<m, p, periods[i]>>] - prev_s(v, m, p, i)

IdleDef_NoIdle(v, m, i) ==
    SumSeq(SeqOf(machine_products[m], LAMBDA p : v.Y[<<m, p, periods[i]>>]))
        <= Len(machine_products[m])

IdleDef(v, m, i) ==
    LET prods == machine_products[m]
        sum_y == SumSeq(SeqOf(prods, LAMBDA p : v.Y[<<m, p, periods[i]>>]))
        n_prods == Len(prods)
    IN sum_y <= n_prods * (1 - v.Idle[<<m, periods[i]>>])

LinkSY_NoLink(v, m, p, i) ==
    v.S_state[<<m, p, periods[i]>>] <= 1 + v.Idle[<<m, periods[i]>>]

LinkSY(v, m, p, i) ==
    v.S_state[<<m, p, periods[i]>>] <=
        v.Y[<<m, p, periods[i]>>] + v.Idle[<<m, periods[i]>>]

Cap_NoSetupTime(v, m, i) ==
    SumSeq(SeqOf(machine_products[m], LAMBDA p :
        v.H_steps[<<m, p, periods[i]>>] * step_hours)) <= hours_per_period

Cap(v, m, i) ==
    SumSeq(SeqOf(machine_products[m], LAMBDA p :
        v.H_steps[<<m, p, periods[i]>>] * step_hours
            + setup_time(m) * v.Delta_Setup[<<m, p, periods[i]>>]))
      <= hours_per_period

window_sum(p, i) ==
    LET start_window == Max(1, i - max_delay + 1)
    IN SumSeq([k \in 1..(i - start_window + 1) |->
                  DemandAt(p, start_window + k - 1)])

BacklogWindow(v, p, i) == v.B[<<p, periods[i]>>] <= window_sum(p, i)

prod_in(v, p, i) ==
    SumSeq(SeqOf(product_machines[p], LAMBDA m :
        v.H_steps[<<m, p, periods[i]>>] * step_hours * productivity[p][m]))

prev_inv(v, p, i) ==
    IF i = 1 THEN Get(initial_stock, p, 0) ELSE v.I[<<p, periods[i - 1]>>]

curr_back(v, p, i) == IF max_delay > 0 THEN v.B[<<p, periods[i]>>] ELSE 0

prev_back(v, p, i) ==
    IF max_delay > 0 /\ i > 1 THEN v.B[<<p, periods[i - 1]>>] ELSE 0

BalanceI_NoPrevBack(v, p, i) ==
    prev_inv(v, p, i) + prod_in(v, p, i) + curr_back(v, p, i)
        - DemandAt(p, i) + v.K[<<p, periods[i]>>]

\* prev_inv + prod_in + curr_back == I + prev_back + d_val - K, solved for I
BalanceI(v, p, i) ==
    prev_inv(v, p, i) + prod_in(v, p, i) + curr_back(v, p, i)
        - prev_back(v, p, i) - DemandAt(p, i) + v.K[<<p, periods[i]>>]

backlog_change(v, p, i) ==
    IF max_delay > 0
    THEN IF i > 1
         THEN v.B[<<p, periods[i]>>] - v.B[<<p, periods[i - 1]>>]
         ELSE v.B[<<p, periods[i]>>]
    ELSE 0

DeliveredQ_NoBacklog(v, p, i) == DemandAt(p, i) - v.K[<<p, periods[i]>>]

\* Q == d_val - K - backlog_change
DeliveredQ(v, p, i) ==
    DemandAt(p, i) - v.K[<<p, periods[i]>>] - backlog_change(v, p, i)

next_dem_NoFallback(p, i) ==
    IF i + 1 <= NumPeriods THEN DemandAt(p, i + 1) ELSE 0

next_dem(p, i) ==
    IF i + 1 <= NumPeriods THEN DemandAt(p, i + 1) ELSE DemandAt(p, i)

\* I >= next_dem * safety_stock_pct, with safety_stock_pct in units of 1/PctDen
SafetyStock(v, p, i) ==
    safety_stock_pct > 0 =>
        v.I[<<p, periods[i]>>] * PctDen >= next_dem(p, i) * safety_stock_pct

(***************************************************************************)
(* The MIP back-end (CBC behind pulp): the assignments of the variables    *)
(* that satisfy every constraint and every variable bound, period by       *)
(* period (no constraint links periods further apart than t-1 and t).      *)
(***************************************************************************)
MaxUp(i) ==
    CHOOSE n \in 0..max_steps_cap :
        /\ \A k \in KeysMP(i) : upBound[k] <= n
        /\ KeysMP(i) = {} \/ \E k \in KeysMP(i) : upBound[k] = n

WithS(v, i) ==
    { w \in {[v EXCEPT !.S_state = s @@ @] : s \in [KeysMP(i) -> Binary]} :
        \A m \in Machines : OneState(w, m, i) }

WithY(v, i) ==
    UNION { { w \in {[u EXCEPT !.Idle = d @@ @, !.Y = y @@ @] :
                        d \in [KeysM(i) -> Binary], y \in [KeysMP(i) -> Binary]} :
                \A m \in Machines :
                    /\ IdleDef(w, m, i)
                    /\ \A p \in Range(machine_products[m]) : LinkSY(w, m, p, i) } :
            u \in WithS(v, i) }

WithDelta(v, i) ==
    UNION { { w \in {[u EXCEPT !.Delta_Setup = d @@ @] :
                        d \in [KeysMP(i) -> Binary]} :
                \A m \in Machines : \A p \in Range(machine_products[m]) :
                    DeltaDef(w, m, p, i) /\ DeltaProd(w, m, p, i) } :
            u \in WithY(v, i) }

WithH(v, i) ==
    UNION { { w \in {[u EXCEPT !.H_steps = h @@ @] :
                        h \in [KeysMP(i) -> 0..MaxUp(i)]} :
                \A m \in Machines :
                    /\ \A p \in Range(machine_products[m]) : LinkHY(w, m, p, i)
                    /\ Cap(w, m, i) } :
            u \in WithDelta(v, i) }

MaxWindow(i) ==
    CHOOSE n \in 0..SumSeq(SeqOf(products, LAMBDA p : window_sum(p, i))) :
        /\ \A p \in Products : window_sum(p, i) <= n
        /\ \E p \in Products : window_sum(p, i) = n

WithB(v, i) ==
    IF max_delay > 0
    THEN UNION { { w \in {[u EXCEPT !.B = b @@ @] :
                             b \in [KeysP(i) -> 0..MaxWindow(i)]} :
                     \A p \in Products : BacklogWindow(w, p, i) } :
                 u \in WithH(v, i) }
    ELSE WithH(v, i)

\* Q >= 0 bounds K by the demand and the backlog carried in.
MaxLost(v, i) ==
    SumSeq(SeqOf(products, LAMBDA p : DemandAt(p, i) + prev_back(v, p, i)))

WithK(v, i) ==
    UNION { { w \in {[u EXCEPT !.K = k @@ @] :
                        k \in [KeysP(i) -> 0..MaxLost(u, i)]} :
                \A p \in Products : DeliveredQ(w, p, i) >= 0 /\ BalanceI(w, p, i) >= 0 } :
            u \in WithB(v, i) }

PeriodAssignments(v, i) ==
    { w \in { [u EXCEPT
                 !.Q = [k \in KeysP(i) |-> DeliveredQ(u, k[1], i)] @@ @,
                 !.I = [k \in KeysP(i) |-> BalanceI(u, k[1], i)] @@ @] :
              u \in WithK(v, i) } :
        \A p \in Products : SafetyStock(w, p, i) }

MinOver(S) == IF S = {} THEN NoValue ELSE CHOOSE x \in S : \A y \in S : x <= y

RECURSIVE MinObjective(_, _)
MinObjective(v, i) ==
    IF i > NumPeriods THEN Objective(v)
    ELSE MinOver({MinObjective(w, i + 1) : w \in PeriodAssignments(v, i)}
                    \ {NoValue})

Assigned == Cardinality(DOMAIN Idle) \div Cardinality(Machines)

(***************************************************************************)
(* _format_results.  Ratios (service level, average inventory,             *)
(* utilization) are kept as a numerator and a denominator.                 *)
(***************************************************************************)
Ratio(n, d) == [num |-> n, den |-> d]

Periodwise(F(_)) == Concat([i \in 1..NumPeriods |-> F(i)])

inventory_rows(v) ==
    Periodwise(LAMBDA i : SeqOf(products, LAMBDA p :
        [Period |-> periods[i], Product |-> Label(p),
         Inventory |-> v.I[<<p, periods[i]>>],
         TargetInventory |-> IF i + 1 <= NumPeriods THEN DemandAt(p, i + 1) ELSE 0,
         Shortage |-> 0]))

demand_rows(v) ==
    Periodwise(LAMBDA i : SeqOf(products, LAMBDA p :
        [Period |-> periods[i], Product |-> Label(p),
         Demand |-> DemandAt(p, i),
         Met |-> v.Q[<<p, periods[i]>>],
         Lost |-> v.K[<<p, periods[i]>>],
         Backlog |-> IF max_delay > 0 THEN v.B[<<p, periods[i]>>] ELSE 0]))

prev_state_prod(v, m, i) ==
    LET hits == IF i > 1
                THEN SelectSeq(machine_products[m], LAMBDA p_check :
                         v.S_state[<<m, p_check, periods[i - 1]>>] = 1)
                ELSE <<>>
    IN IF hits # <<>> THEN Label(hits[1]) ELSE "Início/Ocioso"

current_period_setups(v, m, i) ==
    SelectSeq(machine_products[m],
              LAMBDA p : v.Delta_Setup[<<m, p, periods[i]>>] = 1)

final_state_prod(v, m, i) ==
    LET hits == SelectSeq(machine_products[m],
                          LAMBDA p : v.S_state[<<m, p, periods[i]>>] = 1)
    IN IF hits # <<>> THEN hits[Len(hits)] ELSE <<>>

ordered_chain_Unordered(v, m, i) == current_period_setups(v, m, i)

ordered_chain(v, m, i) ==
    LET fired == current_period_setups(v, m, i)
        final == final_state_prod(v, m, i)
        intermediaries == SelectSeq(fired, LAMBDA p : p # final)
    IN IF final \in Range(fired) THEN Append(intermediaries, final)
       ELSE intermediaries

setup_rows_of(v, m, i) ==
    LET chain == ordered_chain(v, m, i)
    IN [n \in 1..Len(chain) |->
          [Period |-> periods[i], Machine |-> m,
           From |-> IF n = 1 THEN prev_state_prod(v, m, i)
                    ELSE Label(chain[n - 1]),
           To |-> Label(chain[n])]]

setup_rows(v) ==
    Periodwise(LAMBDA i :
        Concat(SeqOf(active_machines, LAMBDA m : setup_rows_of(v, m, i))))

production_rows_of(v, m, i) ==
    LET made == SelectSeq(machine_products[m],
                          LAMBDA p : v.H_steps[<<m, p, periods[i]>>] > 0)
    IN SeqOf(made, LAMBDA p :
          LET prod_hours == v.H_steps[<<m, p, periods[i]>>] * step_hours
          IN [Period |-> periods[i], Machine |-> m, Product |-> Label(p),
              Quantity |-> prod_hours * productivity[p][m],
              Hours |-> prod_hours])

production_rows(v) ==
    Periodwise(LAMBDA i :
        Concat(SeqOf(active_machines, LAMBDA m : production_rows_of(v, m, i))))

summary_rows(v) ==
    [i \in 1..NumPeriods |->
        LET t == periods[i]
            p_hours == SumSeq(SeqOf(active_machines, LAMBDA m :
                          SumSeq(SeqOf(machine_products[m], LAMBDA p :
                              v.H_steps[<<m, p, t>>] * step_hours
                                + v.Delta_Setup[<<m, p, t>>] * setup_time(m)))))
            avail == hours_per_period * Len(active_machines)
        IN [Period |-> t,
            Inventory |-> SumSeq(SeqOf(products, LAMBDA p : v.I[<<p, t>>])),
            Utilization |-> IF avail > 0 THEN Ratio(p_hours, avail) ELSE Ratio(0, 1),
            Demand |-> SumSeq(SeqOf(products, LAMBDA p : DemandAt(p, i))),
            Lost |-> SumSeq(SeqOf(products, LAMBDA p : v.K[<<p, t>>])),
            Production |-> SumSeq(SeqOf(active_machines, LAMBDA m :
                              SumSeq(SeqOf(machine_products[m], LAMBDA p :
                                  v.H_steps[<<m, p, t>>] * step_hours
                                    * productivity[p][m]))))]]

total_demand_val ==
    SumSeq(Periodwise(LAMBDA i : SeqOf(products, LAMBDA p : DemandAt(p, i))))

total_met_val(v) ==
    SumSeq(Periodwise(LAMBDA i : SeqOf(products, LAMBDA p : v.Q[<<p, periods[i]>>])))

total_inv_val(v) ==
    SumSeq(Periodwise(LAMBDA i : SeqOf(products, LAMBDA p : v.I[<<p, periods[i]>>])))

service_level_FromLost(v) ==
    IF total_demand_val > 0
    THEN Ratio(total_demand_val
                 - SumSeq(Periodwise(LAMBDA i : SeqOf(products, LAMBDA p :
                       v.K[<<p, periods[i]>>]))),
               total_demand_val)
    ELSE Ratio(1, 1)

service_level(v) ==
    IF total_demand_val > 0 THEN Ratio(total_met_val(v), total_demand_val)
    ELSE Ratio(1, 1)

cost_breakdown_NoBacklog(v) ==
    [lost_sales |-> SumSeq(terms_lost_sales(v)),
     backlog |-> 0,
     setup |-> SumSeq(terms_setup(v))]

cost_breakdown(v) ==
    [lost_sales |-> SumSeq(terms_lost_sales(v)),
     backlog |-> SumSeq(terms_backlog(v)),
     setup |-> SumSeq(terms_setup(v))]

format_results(v, st) ==
    [status |-> st,
     inventory |-> inventory_rows(v),
     production |-> production_rows(v),
     setups |-> setup_rows(v),
     demand |-> demand_rows(v),
     summary |-> summary_rows(v),
     kpis |-> [service_level |-> service_level(v),
               avg_inventory |-> Ratio(total_inv_val(v), NumPeriods),
               total_cost |-> Objective(v),
               cost_breakdown |-> cost_breakdown(v)]]

(***************************************************************************)
(* LotSizingSolver.solve                                                   *)
(***************************************************************************)
SolveNoPeriods_CallsBackend ==
    /\ pc = "constructed"
    /\ periods = <<>>
    /\ timeLimit' = PULP_TIME_LIMIT
    /\ result' = [status |-> "Not Solved"]
    /\ pc' = "returned"
    /\ UNCHANGED <<argVars, indexVars, upBound, valueVars, best, status>>

SolveNoPeriods ==
    /\ pc = "constructed"
    /\ periods = <<>>
    /\ result' = [status |-> "No valid periods found"]
    /\ pc' = "returned"
    /\ UNCHANGED <<argVars, indexVars, upBound, valueVars, best, timeLimit, status>>

\* _define_variables, _build_objective_function, _add_constraints, and the
\* call of prob.solve(PULP_CBC_CMD(msg=1, timeLimit=600))
SolveBuild ==
    /\ pc = "constructed"
    /\ periods # <<>>
    /\ upBound' = UpBounds
    /\ timeLimit' = PULP_TIME_LIMIT
    /\ pc' = "solving"
    /\ UNCHANGED <<argVars, indexVars, valueVars, best, status, result>>

\* the back-end's proof: the least objective over the feasible assignments
BackendBound ==
    /\ pc = "solving"
    /\ best' = MinObjective(Valuation, 1)
    /\ pc' = "search"
    /\ UNCHANGED <<argVars, indexVars, upBound, valueVars, timeLimit, status, result>>

\* the search fixes the variables of the next period
BackendAssign ==
    /\ pc = "search"
    /\ Assigned < NumPeriods
    /\ \E w \in PeriodAssignments(Valuation, Assigned + 1) :
          /\ H_steps' = w.H_steps /\ Y' = w.Y /\ S_state' = w.S_state
          /\ Delta_Setup' = w.Delta_Setup /\ Idle' = w.Idle
          /\ I' = w.I /\ Q' = w.Q /\ K' = w.K /\ B' = w.B
    /\ UNCHANGED <<argVars, indexVars, upBound, best, timeLimit, status, result, pc>>

BackendOptimal ==
    /\ pc = "search"
    /\ Assigned = NumPeriods
    /\ Objective(Valuation) = best
    /\ status' = "Optimal"
    /\ pc' = "solved"
    /\ UNCHANGED <<argVars, indexVars, upBound, valueVars, best, timeLimit, result>>

BackendInfeasible ==
    /\ pc = "search"
    /\ best = NoValue
    /\ Assigned = 0
    /\ status' = "Infeasible"
    /\ pc' = "solved"
    /\ UNCHANGED <<argVars, indexVars, upBound, valueVars, best, timeLimit, result>>

\* the time limit ends the search.  Without an incumbent CBC's "Stopped" is
\* pulp's "Not Solved"; with an incumbent (a complete feasible assignment)
\* pulp reports "Optimal" (solution status: integer feasible) or, where it has
\* no such rule, "Not Solved".
BackendStopped ==
    /\ pc = "search"
    /\ status' \in IF Assigned = NumPeriods THEN {"Optimal", "Not Solved"}
                   ELSE {"Not Solved"}
    /\ pc' = "solved"
    /\ UNCHANGED <<argVars, indexVars, upBound, valueVars, best, timeLimit, result>>

SolveReturn ==
    /\ pc = "solved"
    /\ result' = IF status # "Optimal" THEN [status |-> status]
                 ELSE format_results(Valuation, status)
    /\ pc' = "returned"
    /\ UNCHANGED <<argVars, indexVars, upBound, valueVars, best, timeLimit, status>>

Next ==
    \/ Construct
    \/ SolveNoPeriods
    \/ SolveBuild
    \/ BackendBound
    \/ BackendAssign
    \/ BackendOptimal
    \/ BackendInfeasible
    \/ BackendStopped
    \/ SolveReturn

Spec == Init /\ [][Next]_vars

(***************************************************************************)
(* The claims.                                                             *)
(***************************************************************************)
Returned == pc = "returned" /\ status = "Optimal"

AssignedPeriods == 1..Assigned

BacklogOf(p, i) ==
    IF max_delay > 0 /\ i >= 1 THEN B[<<p, periods[i]>>] ELSE 0

\* C1: in every assignment that satisfies the constraints (a returned plan is
\* one), each active machine has, in each period, exactly one product p of
\* MachineProducts[m] with S[m,p,t] = 1, every S being 0 or 1.
C1_OneStateAtATime ==
    \A m \in DOMAIN machine_products : \A i \in AssignedPeriods :
        /\ \A p \in Range(machine_products[m]) :
              S_state[<<m, p, periods[i]>>] \in {0, 1}
        /\ Cardinality({p \in Range(machine_products[m]) :
                           S_state[<<m, p, periods[i]>>] = 1}) = 1

C1_Witness ==
    /\ Returned
    /\ NumPeriods = 2
    /\ \E m \in DOMAIN machine_products :
          /\ Len(machine_products[m]) = 2
          /\ S_state[<<m, PA, periods[1]>>] = 1
          /\ S_state[<<m, PB, periods[2]>>] = 1

\* C2: in every assignment that satisfies the constraints (a returned plan is
\* one), for each product p and period t,
\* Q[p,t] + K[p,t] + (B[p,t] - B[p,t-1]) = demand[p,t], B[p,t-1] being 0 in
\* the first period and both backlog terms 0 when max_delay = 0.
C2_DeliveredPlusLost ==
    \A p \in Range(products) : \A i \in AssignedPeriods :
        Q[<<p, periods[i]>>] + K[<<p, periods[i]>>]
            + (BacklogOf(p, i) - BacklogOf(p, i - 1))
          = Get(demand[p], periods[i], 0)

C2_Witness ==
    /\ Returned
    /\ NumPeriods = 2
    /\ \E p \in Range(products) :
          /\ BacklogOf(p, 1) > 0
          /\ K[<<p, periods[1]>>] = 0
          /\ Q[<<p, periods[1]>>] < Get(demand[p], periods[1], 0)

ProductionRowsOf(p, i) ==
    SelectSeq(result.production,
              LAMBDA r : r.Period = periods[i] /\ r.Product = Label(p))

ProducedKg(p, i) ==
    SumSeq(SeqOf(ProductionRowsOf(p, i), LAMBDA r : r.Quantity))

StockBefore(p, i) ==
    IF i = 1 THEN Get(initial_stock, p, 0) ELSE I[<<p, periods[i - 1]>>]

\* C3 as stated: in every returned plan, I[p,t-1] (initial_stock[p], default
\* 0, in the first period) plus the kg produced for p in t equals
\* I[p,t] + Q[p,t], plus B[p,t-1] when max_delay > 0.
C3_MassBalanceAsStated ==
    Returned =>
        \A p \in Range(products) : \A i \in 1..NumPeriods :
            StockBefore(p, i) + ProducedKg(p, i)
              = I[<<p, periods[i]>>] + Q[<<p, periods[i]>>]
                  + (IF max_delay > 0 THEN BacklogOf(p, i - 1) ELSE 0)

\* C3 amended: in every returned plan, I[p,t-1] (initial_stock[p], default 0,
\* in the first period) plus the kg produced for p in t over all eligible
\* machines equals I[p,t] + Q[p,t], with no backlog term, whether or not
\* backlog is enabled.
C3_MassBalance ==
    Returned =>
        \A p \in Range(products) : \A i \in 1..NumPeriods :
            StockBefore(p, i) + ProducedKg(p, i)
              = I[<<p, periods[i]>>] + Q[<<p, periods[i]>>]

C3_Witness ==
    /\ Returned
    /\ NumPeriods = 2
    /\ \E p \in Range(products) :
          /\ BacklogOf(p, 1) > 0
          /\ ProducedKg(p, 2) > 0

SetupHours(m, i) ==
    Cardinality({p \in Range(machine_products[m]) :
                    Delta_Setup[<<m, p, periods[i]>>] = 1})
        * (IF m \in {"11", "14"} THEN 7 ELSE 3)

ProductionHours(m, i) ==
    SumSeq(SeqOf(machine_products[m],
                 LAMBDA p : H_steps[<<m, p, periods[i]>>] * step_hours))

\* C4: in every assignment that satisfies the constraints (a returned plan is
\* one), for each active machine m and period t the production hours (sum of
\* H[m,p,t] * step_hours) plus the setup hours (7 for each fired setup of a
\* machine of HIGH_SETUP_MACHINES, 3 otherwise) do not exceed
\* hours_per_period.
C4_Capacity ==
    \A m \in DOMAIN machine_products : \A i \in AssignedPeriods :
        ProductionHours(m, i) + SetupHours(m, i) <= hours_per_period

C4_Witness ==
    /\ Returned
    /\ \E m \in DOMAIN machine_products : \E i \in AssignedPeriods :
          /\ m \in HIGH_SETUP_MACHINES
          /\ SetupHours(m, i) = 7
          /\ ProductionHours(m, i) > 0
          /\ ProductionHours(m, i) + SetupHours(m, i) = hours_per_period

\* C5: in every assignment that satisfies the constraints (a returned plan is
\* one), for each product p, with or without an eligible machine, and period
\* t: I[p,t] >= safety_stock_pct * demand[p, next period], and for the last
\* period I[p,t] >= safety_stock_pct * demand[p,t].
C5_SafetyStock ==
    \A p \in Range(products) : \A i \in AssignedPeriods :
        I[<<p, periods[i]>>] * PctDen >=
            safety_stock_pct *
                Get(demand[p], periods[IF i < NumPeriods THEN i + 1 ELSE i], 0)

C5_Witness ==
    /\ Returned
    /\ safety_stock_pct > 0
    /\ NumPeriods = 2
    /\ \E p \in Range(products) :
          /\ product_machines[p] = <<>>
          /\ Get(demand[p], periods[2], 0) > 0
          /\ I[<<p, periods[2]>>] > 0

\* C6: in every assignment that satisfies the constraints, if Idle[m,t] = 1
\* then Y[m,p,t] = 0 and H[m,p,t] = 0 for every product p of
\* MachineProducts[m], and a returned plan has no production row for (m,t).
C6_IdleNoProduction ==
    \A m \in DOMAIN machine_products : \A i \in AssignedPeriods :
        Idle[<<m, periods[i]>>] = 1 =>
            /\ \A p \in Range(machine_products[m]) :
                  /\ Y[<<m, p, periods[i]>>] = 0
                  /\ H_steps[<<m, p, periods[i]>>] = 0
            /\ Returned =>
                  \A n \in 1..Len(result.production) :
                      ~(/\ result.production[n].Machine = m
                        /\ result.production[n].Period = periods[i])

C6_Witness ==
    /\ Returned
    /\ NumPeriods = 2
    /\ \E m \in DOMAIN machine_products :
          /\ Idle[<<m, periods[1]>>] = 1
          /\ Idle[<<m, periods[2]>>] = 0
          /\ Len(result.production) > 0

IdlePairs ==
    {k \in DOMAIN Idle : Idle[k] = 1}

VacationRows ==
    IF pc = "returned" /\ "vacations" \in DOMAIN result THEN result.vacations
    ELSE <<>>

RequiredIdle == CeilDiv(Len(active_machines) * NumPeriods, 12)

\* C7: a run with vacation_planning = true goes through (the constructor takes
\* the keyword), and every plan it returns has exactly
\* ceil(|active_machines| * |Periods| / 12) pairs (m,t) with Idle[m,t] = 1,
\* each reported as one vacation row of the result.
C7_VacationTotal ==
    vacation_planning =>
        /\ pc # "TypeError"
        /\ Returned =>
              /\ Cardinality(IdlePairs) = RequiredIdle
              /\ Len(VacationRows) = RequiredIdle

TotalLost == SumSeq(SeqOf(result.demand, LAMBDA r : r.Lost))

TotalDemand == SumSeq(SeqOf(result.demand, LAMBDA r : r.Demand))

EndBacklog ==
    SumSeq(SeqOf(SelectSeq(result.demand,
                           LAMBDA r : r.Period = periods[NumPeriods]),
                 LAMBDA r : r.Backlog))

\* C8 as stated: the reported service_level equals
\* 1 - total_lost / total_demand for every returned plan, plans with backlog
\* enabled included, and is 1.0 when total demand is zero.
C8_ServiceLevelAsStated ==
    Returned =>
        LET sl == result.kpis.service_level
        IN IF TotalDemand > 0
           THEN sl.num * TotalDemand = (TotalDemand - TotalLost) * sl.den
           ELSE sl.num = sl.den

\* C8, what the code reports: the service_level equals
\* 1 - (total_lost + the backlog outstanding at the end of the horizon)
\* / total_demand, which is total delivered Q over total demand (so
\* 1 - total_lost / total_demand when max_delay = 0); it is 1.0 when total
\* demand is zero.
C8_ServiceLevel ==
    Returned =>
        LET sl == result.kpis.service_level
        IN IF TotalDemand > 0
           THEN sl.num * TotalDemand
                  = (TotalDemand - TotalLost - EndBacklog) * sl.den
           ELSE sl.num = sl.den

C8_Witness ==
    /\ Returned
    /\ max_delay > 0
    /\ EndBacklog > 0
    /\ TotalDemand > EndBacklog

SetupRowsOf(m, i) ==
    SelectSeq(result.setups,
              LAMBDA r : r.Machine = m /\ r.Period = periods[i])

\* C9: in every returned plan, for each machine m and period t that has setup
\* rows for m: in the first period the first row's From is "Início/Ocioso";
\* later, the From of the first row is "Parada/Férias" when m was idle in
\* t-1 and otherwise, when t-1 has setup rows for m too, the To of the last
\* setup row of (m, t-1).
C9_SetupChainConsistency ==
    Returned =>
        \A m \in Range(active_machines) : \A i \in 1..NumPeriods :
            SetupRowsOf(m, i) # <<>> =>
                LET from == SetupRowsOf(m, i)[1].From
                    before == SetupRowsOf(m, i - 1)
                IN /\ i = 1 => from = "Início/Ocioso"
                   /\ i > 1 /\ Idle[<<m, periods[i - 1]>>] = 1 =>
                         from = "Parada/Férias"
                   /\ i > 1 /\ Idle[<<m, periods[i - 1]>>] = 0
                        /\ before # <<>> =>
                         from = before[Len(before)].To

LostSalesCost ==
    SumSeq(SeqOf(products, LAMBDA p :
        SumSeq(SeqOf(periods, LAMBDA t :
            Get(costs, p, 0) * K[<<p, t>>] * MoneyScale))))

BacklogCost ==
    IF max_delay = 0 THEN 0
    ELSE SumSeq(SeqOf(products, LAMBDA p :
            SumSeq(SeqOf(periods, LAMBDA t :
                Get(costs, p, 0) * B[<<p, t>>] * BACKLOG_PENALTY_TENTHS))))

SetupCost ==
    SumSeq(SeqOf(active_machines, LAMBDA m :
        SumSeq(SeqOf(machine_products[m], LAMBDA p :
            SumSeq(SeqOf(periods, LAMBDA t :
                Get(costs, p, 0) * productivity[p][m]
                    * (IF m \in {"11", "14"} THEN 7 ELSE 3)
                    * Delta_Setup[<<m, p, t>>] * MoneyScale))))))

\* C10: in every returned result, kpis.total_cost (the objective value) equals
\* cost_breakdown.lost_sales + cost_breakdown.backlog + cost_breakdown.setup,
\* where lost_sales is the sum of cost[p] * K[p,t], backlog the sum of
\* 0.1 * cost[p] * B[p,t] (0 when max_delay = 0) and setup the sum of
\* cost[p] * rate[m,p] * setup_time[m] * Delta[m,p,t].
C10_CostIdentity ==
    Returned =>
        LET cb == result.kpis.cost_breakdown
        IN /\ result.kpis.total_cost = cb.lost_sales + cb.backlog + cb.setup
           /\ Objective(Valuation) = best => result.kpis.total_cost = best
           /\ cb.lost_sales = LostSalesCost
           /\ cb.backlog = BacklogCost
           /\ cb.setup = SetupCost

C10_Witness ==
    /\ Returned
    /\ result.kpis.cost_breakdown.backlog > 0
    /\ result.kpis.cost_breakdown.setup > 0

NoPeriodInHorizon ==
    \A d \in DOMAIN demand[demand_keys[1]] :
        ~ (d >= start_period /\ (end_period = None \/ d <= end_period))

ModelBuilt ==
    \/ upBound # <<>>
    \/ \E n \in 1..Len(valueVars) : valueVars[n] # <<>>
    \/ timeLimit # None
    \/ best # NoValue

\* C11: if no demand period lies inside [start_period, end_period] (an absent
\* end_period leaving the horizon open), solve returns exactly
\* {status: "No valid periods found"}, and no variable, bound or constraint
\* is created and the back-end is never called.
C11_NoValidPeriods ==
    (pc \in {"constructed", "returned"} /\ NoPeriodInHorizon) =>
        /\ periods = <<>>
        /\ ~ ModelBuilt
        /\ pc = "returned" => result = [status |-> "No valid periods found"]

C11_Witness ==
    /\ pc = "returned"
    /\ NoPeriodInHorizon
    /\ start_period > AllDates[Len(AllDates)]

HasRows ==
    {"inventory", "production", "setups", "demand", "summary", "kpis"}
        \subseteq DOMAIN result

\* the back-end stopped at the time limit holding a feasible assignment that
\* is not optimal
TimeLimitedFeasible ==
    /\ pc = "returned"
    /\ periods # <<>>
    /\ Assigned = NumPeriods
    /\ Objective(Valuation) > best

\* C12: solve returns the result rows (inventory, production, setups, demand,
\* summary, kpis) exactly when the back-end status is "Optimal" or "Feasible";
\* a time-limited feasible solve is reported as "Feasible" and extracted as an
\* optimal one is; for every other status ("Infeasible", "Unbounded",
\* "Not Solved", "Undefined") only the status is returned.
C12_ExtractsOptimalOrFeasible ==
    (pc = "returned" /\ periods # <<>>) =>
        /\ result.status \in {"Optimal", "Feasible", "Infeasible", "Unbounded",
                              "Not Solved", "Undefined"}
        /\ HasRows <=> result.status \in {"Optimal", "Feasible"}
        /\ ~ HasRows => result = [status |-> status]
        /\ TimeLimitedFeasible =>
              result = format_results(Valuation, "Feasible")

EveryMachineHasProduct ==
    \A m \in Range(active_machines) : machine_products[m] # <<>>

\* C13: for every input in which each active machine has an eligible product,
\* whatever the demand, hours_per_period and safety_stock_pct, the constraint
\* system is satisfiable (lost demand K absorbs any shortfall) and solve never
\* returns "Infeasible".
C13_AlwaysSatisfiable ==
    (pc \in {"search", "solved", "returned"} /\ periods # <<>>
        /\ EveryMachineHasProduct) =>
        /\ best # NoValue
        /\ status # "Infeasible"

ProvedOptimal == Returned /\ Objective(Valuation) = best

ScenarioOne ==
    /\ demand = (PA :> (AllDates[1] :> 100))
    /\ productivity = (PA :> ("1" :> 10))
    /\ hours_per_period = 720
    /\ step_hours = 6

ScenarioOneSetups ==
    <<[Period |-> AllDates[1], Machine |-> "1", From |-> "Início/Ocioso",
       To |-> "A L"]>>

\* C14 as stated: in scenario 1 (machine "1", product (A,L) at 10 kg/h, 100 kg
\* due in 2024-01, no stock, cost 5.0, 720 hours, steps of 6 hours, integer)
\* the optimal result has exactly one production row of 100.0 kg and 10.0
\* hours, one setup row from "Início/Ocioso" to "A L", service_level 1.0 and
\* total_cost 150.0.
C14_ScenarioOneAsStated ==
    (ProvedOptimal /\ ScenarioOne) =>
        /\ result.production =
              <<[Period |-> AllDates[1], Machine |-> "1", Product |-> "A L",
                 Quantity |-> 100, Hours |-> 10]>>
        /\ result.setups = ScenarioOneSetups
        /\ result.kpis.service_level.num = result.kpis.service_level.den
        /\ result.kpis.total_cost = 150 * MoneyScale

\* C14 amended: in scenario 1 the optimal result has exactly one production
\* row of 120.0 kg and 12.0 hours (two whole steps of 6 hours; 20 kg stay in
\* stock), one setup row from "Início/Ocioso" to "A L", service_level 1.0 and
\* total_cost 150.0.
C14_ScenarioOne ==
    (ProvedOptimal /\ ScenarioOne) =>
        /\ result.production =
              <<[Period |-> AllDates[1], Machine |-> "1", Product |-> "A L",
                 Quantity |-> 120, Hours |-> 12]>>
        /\ result.setups = ScenarioOneSetups
        /\ result.kpis.service_level.num = result.kpis.service_level.den
        /\ result.kpis.total_cost = 150 * MoneyScale
        /\ result.inventory[1].Inventory = 20

C14_Witness == ProvedOptimal /\ ScenarioOne /\ H_steps[<<"1", PA, AllDates[1]>>] = 2

TotalMet == SumSeq(SeqOf(result.demand, LAMBDA r : r.Met))

\* C15: with backlog enabled (max_delay > 0), in every returned optimal plan
\* no backlog is outstanding after the last period (B[p, last] = 0 for every
\* product), so that over the horizon every unit of demand is delivered
\* (counted in Q) or lost (counted in K).
C15_NoBacklogAtEnd ==
    (ProvedOptimal /\ max_delay > 0) =>
        /\ \A p \in Range(products) : B[<<p, periods[NumPeriods]>>] = 0
        /\ TotalDemand = TotalMet + TotalLost

\* C16: solve runs the back-end chosen by the caller's solver_name with the
\* caller's time_limit: a caller that passes them gets its solve (no
\* exception), and the time limit in force during the solve equals the
\* time_limit it passed.
C16_TimeLimitForwarded ==
    solve_kwargs # <<>> =>
        /\ pc # "TypeError"
        /\ timeLimit # None => timeLimit = solve_kwargs.time_limit

(***************************************************************************)
(* The same constraint system with H bounded by max_steps_cap only         *)
(* (H <= max_steps_cap, H <= max_steps_cap * Y).                           *)
(***************************************************************************)
LinkHYLoose(v, m, p, i) ==
    LET k == <<m, p, periods[i]>>
    IN /\ v.H_steps[k] <= max_steps_cap
       /\ v.H_steps[k] <= max_steps_cap * v.Y[k]

WithHLoose(v, i) ==
    UNION { { w \in {[u EXCEPT !.H_steps = h @@ @] :
                        h \in [KeysMP(i) -> 0..max_steps_cap]} :
                \A m \in Machines :
                    /\ \A p \in Range(machine_products[m]) :
                          LinkHYLoose(w, m, p, i)
                    /\ Cap(w, m, i) } :
            u \in WithDelta(v, i) }

WithBLoose(v, i) ==
    IF max_delay > 0
    THEN UNION { { w \in {[u EXCEPT !.B = b @@ @] :
                             b \in [KeysP(i) -> 0..MaxWindow(i)]} :
                     \A p \in Products : BacklogWindow(w, p, i) } :
                 u \in WithHLoose(v, i) }
    ELSE WithHLoose(v, i)

WithKLoose(v, i) ==
    UNION { { w \in {[u EXCEPT !.K = k @@ @] :
                        k \in [KeysP(i) -> 0..MaxLost(u, i)]} :
                \A p \in Products :
                    DeliveredQ(w, p, i) >= 0 /\ BalanceI(w, p, i) >= 0 } :
            u \in WithBLoose(v, i) }

PeriodAssignmentsLoose(v, i) ==
    { w \in { [u EXCEPT
                 !.Q = [k \in KeysP(i) |-> DeliveredQ(u, k[1], i)] @@ @,
                 !.I = [k \in KeysP(i) |-> BalanceI(u, k[1], i)] @@ @] :
              u \in WithKLoose(v, i) } :
        \A p \in Products : SafetyStock(w, p, i) }

RECURSIVE MinObjectiveLoose(_, _)
MinObjectiveLoose(v, i) ==
    IF i > NumPeriods THEN Objective(v)
    ELSE MinOver({MinObjectiveLoose(w, i + 1) :
                     w \in PeriodAssignmentsLoose(v, i)} \ {NoValue})

\* C17: the bound min(max_steps_cap, ceil(remaining demand / (rate *
\* step_hours))) on H is pure tightening: for every input the model is
\* feasible exactly when the model bounded by max_steps_cap alone is, and
\* both have the same optimal objective value.
C17_PureTightening ==
    (pc = "search" /\ Assigned = 0) => best = MinObjectiveLoose(Valuation, 1)

ConfiguredBefore(m, p, i) ==
    IF i > 1 THEN S_state[<<m, p, periods[i - 1]>>] ELSE 0

SetupForced(m, p, i) ==
    /\ ConfiguredBefore(m, p, i) = 0
    /\ \/ S_state[<<m, p, periods[i]>>] = 1
       \/ Y[<<m, p, periods[i]>>] = 1

\* C18: in every assignment that satisfies the constraints, for each
\* (m, p, t), Delta[m,p,t] = 1 whenever p was not configured on m at the end
\* of t-1 (always so in the first period) and S[m,p,t] = 1 or Y[m,p,t] = 1;
\* so every active machine pays at least one setup in the first period, even
\* when it produces nothing.
C18_TransitionPaysSetup ==
    \A i \in AssignedPeriods : \A m \in Range(active_machines) :
        /\ \A p \in Range(machine_products[m]) :
              SetupForced(m, p, i) => Delta_Setup[<<m, p, periods[i]>>] = 1
        /\ i = 1 => \E p \in Range(machine_products[m]) :
                        Delta_Setup[<<m, p, periods[1]>>] = 1

C18_Witness ==
    /\ Returned
    /\ result.production = <<>>
    /\ \A k \in DOMAIN Idle : Idle[k] = 1
    /\ \E n \in 1..Len(result.setups) : result.setups[n].Period = periods[1]

\* C19: in every optimal plan Delta[m,p,t] = 1 only when a setup is forced
\* (S[m,p,t-1] = 0 and S[m,p,t] = 1 or Y[m,p,t] = 1); when p was configured
\* on m at the end of t-1 and is produced or stays configured in t,
\* Delta[m,p,t] = 0 and no setup row to p is emitted for (m, t); this for
\* every product, those whose unit cost is absent from costs included.
C19_CarryOverAvoidsSetup ==
    ProvedOptimal =>
        \A i \in 1..NumPeriods : \A m \in Range(active_machines) :
            \A p \in Range(machine_products[m]) :
                /\ Delta_Setup[<<m, p, periods[i]>>] = 1 => SetupForced(m, p, i)
                /\ ConfiguredBefore(m, p, i) = 1 =>
                      \A n \in 1..Len(SetupRowsOf(m, i)) :
                          SetupRowsOf(m, i)[n].To # Label(p)

Fired(m, i) ==
    {p \in Range(machine_products[m]) : Delta_Setup[<<m, p, periods[i]>>] = 1}

FinalProduct(m, i) ==
    CHOOSE p \in Range(machine_products[m]) : S_state[<<m, p, periods[i]>>] = 1

StateBefore(m, i) ==
    IF i = 1 THEN "Início/Ocioso"
    ELSE Label(CHOOSE p \in Range(machine_products[m]) :
                   S_state[<<m, p, periods[i - 1]>>] = 1)

\* C20: for each machine m and period t, with fired the products p with
\* Delta[m,p,t] = 1, the result has exactly |fired| setup rows for (m, t),
\* each fired product once as To; the final product (S[m,p,t] = 1) comes last
\* when it fired; the first row's From is the product configured at the end
\* of t-1 ("Início/Ocioso" in the first period) and each later row's From is
\* the previous row's To.
C20_SetupChainReconstruction ==
    Returned =>
        \A i \in 1..NumPeriods : \A m \in Range(active_machines) :
            LET rows == SetupRowsOf(m, i)
            IN /\ Len(rows) = Cardinality(Fired(m, i))
               /\ \A p \in Fired(m, i) :
                     Cardinality({n \in 1..Len(rows) : rows[n].To = Label(p)}) = 1
               /\ FinalProduct(m, i) \in Fired(m, i) =>
                     rows[Len(rows)].To = Label(FinalProduct(m, i))
               /\ rows # <<>> => rows[1].From = StateBefore(m, i)
               /\ \A n \in 2..Len(rows) : rows[n].From = rows[n - 1].To

C20_Witness ==
    /\ ProvedOptimal
    /\ \E m \in Range(active_machines) :
          /\ Len(SetupRowsOf(m, 1)) = 2
          /\ FinalProduct(m, 1) = PA
          /\ SetupRowsOf(m, 1)[1].From = "Início/Ocioso"
          /\ SetupRowsOf(m, 1)[2].From = Label(PB)
          /\ SetupRowsOf(m, 1)[2].To = Label(PA)

ConfiguredAndBusy(m, p, i) ==
    /\ S_state[<<m, p, periods[i]>>] = 1
    /\ Idle[<<m, periods[i]>>] = 0

\* C21 as stated: in every assignment that satisfies the constraints, if
\* S[m,p,t] = 1 and Idle[m,t] = 0 then p is produced on m in t:
\* Y[m,p,t] = 1 and H[m,p,t] > 0.
C21_ConfiguredIsProducedAsStated ==
    \A i \in AssignedPeriods : \A m \in Range(active_machines) :
        \A p \in Range(machine_products[m]) :
            ConfiguredAndBusy(m, p, i) =>
                /\ Y[<<m, p, periods[i]>>] = 1
                /\ H_steps[<<m, p, periods[i]>>] > 0

\* C21 amended: in every assignment that satisfies the constraints, if
\* S[m,p,t] = 1 and Idle[m,t] = 0 then Y[m,p,t] = 1; Y bounds H from above
\* only (H[m,p,t] > 0 implies Y[m,p,t] = 1), so H[m,p,t] may be 0.
C21_ConfiguredIsProduced ==
    \A i \in AssignedPeriods : \A m \in Range(active_machines) :
        \A p \in Range(machine_products[m]) :
            /\ ConfiguredAndBusy(m, p, i) => Y[<<m, p, periods[i]>>] = 1
            /\ H_steps[<<m, p, periods[i]>>] > 0 => Y[<<m, p, periods[i]>>] = 1

C21_Witness ==
    /\ ProvedOptimal
    /\ \E m \in Range(active_machines) : \E p \in Range(machine_products[m]) :
          /\ ConfiguredAndBusy(m, p, 1)
          /\ Y[<<m, p, periods[1]>>] = 1
          /\ H_steps[<<m, p, periods[1]>>] = 0
          /\ upBound[<<m, p, periods[1]>>] > 0

SomeMachineHasNoProduct ==
    \E m \in Range(active_machines) : machine_products[m] = <<>>

\* C22: if some active machine has no eligible product among the demand's
\* products, the model is unsatisfiable (its one-state constraint is an empty
\* sum required to equal 1) and solve returns a status other than "Optimal"
\* with no rows, whatever the other active machines could produce.
C22_MachineWithoutProduct ==
    (pc \in {"search", "solved", "returned"} /\ SomeMachineHasNoProduct) =>
        /\ periods # <<>> => best = NoValue /\ Assigned = 0
        /\ pc # "search" => status # "Optimal"
        /\ pc = "returned" =>
              /\ ~ HasRows
              /\ result.status # "Optimal"
              /\ DOMAIN result = {"status"}

C22_Witness ==
    /\ pc = "returned"
    /\ SomeMachineHasNoProduct
    /\ \E m \in Range(active_machines) : machine_products[m] # <<>>
    /\ result = [status |-> "Infeasible"]

====
